---- MODULE Spec2Model ----
(***************************************************************************)
(* Model of apps/rush/src/actions/PublishAction.ts: the "rush publish"     *)
(* action.  One run of onExecute is a sequential program; pc is its        *)
(* position, trace is everything it has printed or called so far, in       *)
(* order.  Every call of _execCommand is one step, so that a failing       *)
(* command can stop the run between any two of them.                       *)
(***************************************************************************)
EXTENDS Integers, Sequences, FiniteSets, TLC

(* ---- bounds ---- *)
NumPackages == 2
MaxChanges == 2
MaxVersion == 2

Packages == 1..NumPackages
Versions == 1..MaxVersion

(* ---- ChangeType enum of rush-lib.  This file only ever compares a      *)
(* record's changeType with dependency, so the model draws it from the two *)
(* values on either side of that comparison.                               *)
dependency == 1
patch == 2
ChangeType == {dependency, patch}

NoPackage == 0
TargetBranchNames == {"", "main"}
RegistryUrls == {"", "https://private.example/"}
TempBranchName == "publish-t0"

VARIABLES
  flags,            \* the parsed command-line parameters (immutable during a run)
  shouldPublish,    \* rushConfiguration.projectsByName.get(p).shouldPublish
  pc,               \* position of the run
  mode,             \* which branch of onExecute was taken
  orderedChanges,   \* result of sortChangeRequests(findChangeRequests(...))
  tempBranch,       \* local tempBranch of _publishChanges
  idx,              \* loop index of the current for / forEach
  updated,          \* local 'updated' of _publishAll
  trace,            \* console lines of _execCommand and collaborator calls, in order
  manifestVersion,  \* version field of each package.json on disk
  changelogsUpdated,\* changelog files rewritten on disk
  changeFilesDeleted\* change request files removed from disk

vars == <<flags, shouldPublish, pc, mode, orderedChanges, tempBranch, idx, updated,
          trace, manifestVersion, changelogsUpdated, changeFilesDeleted>>

Truthy(s) == s # ""

Range(s) == {s[i] : i \in 1..Len(s)}

(* Sequences without repetition, of length at most n, over the set S. *)
RECURSIVE DistinctSeqs(_, _)
DistinctSeqs(S, n) ==
  IF n = 0 THEN {<< >>}
  ELSE LET shorter == DistinctSeqs(S, n - 1)
       IN shorter \cup UNION {{Append(s, x) : x \in S \ Range(s)} :
                                s \in {t \in shorter : Len(t) = n - 1}}

(* What the change resolver can hand back: at most one record per package, *)
(* in any order, each with a change type and the version it resolved.      *)
ChangeRecord(p, t) ==
  [packageName |-> p, changeType |-> t, newVersion |-> 2]

ResolverOutputs ==
  UNION {{[i \in 1..Len(names) |-> ChangeRecord(names[i], types[i])] :
            types \in [1..Len(names) -> ChangeType]} :
         names \in DistinctSeqs(Packages, MaxChanges)}

(* What the registry can answer to Npm.publishedVersions. *)
PublishedLists == DistinctSeqs(Versions, MaxVersion)

(* Array.prototype.indexOf: zero-based index of the first match, or -1. *)
IndexOf(list, v) ==
  IF \E i \in 1..Len(list) : list[i] = v
  THEN (CHOOSE i \in 1..Len(list) : list[i] = v /\ \A j \in 1..(i - 1) : list[j] # v) - 1
  ELSE -1

(* ---- environments: a set of <<name, value>> pairs, or undefined ---- *)
ProcessEnv == {<<"PATH", "/usr/bin">>}

undefinedEnv == [defined |-> FALSE, vars |-> {}]

(* _getEnvArgs, lines 223-231: a copy of process.env *)
_getEnvArgs == [defined |-> TRUE, vars |-> ProcessEnv]

(* env[name] = value *)
SetEnv(env, name, value) ==
  [defined |-> TRUE, vars |-> {v \in env.vars : v[1] # name} \cup {<<name, value>>}]

(* One element of trace.  kind: "gate" is a line printed by _execCommand, *)
(* "call" a collaborator call, "probe" a registry query, "log" another    *)
(* console line.  exec: the boolean handed to the call; ok: FALSE when    *)
(* the call threw; env: the environment handed to a spawned process.      *)
Entry(kind, cmd, pkg, exec, ref, arg, ok) ==
  [kind |-> kind, cmd |-> cmd, pkg |-> pkg, exec |-> exec, ref |-> ref, arg |-> arg,
   ok |-> ok, env |-> undefinedEnv]

Init ==
  /\ flags \in [apply : BOOLEAN, publish : BOOLEAN, includeAll : BOOLEAN, force : BOOLEAN,
                regenerateChangelogs : BOOLEAN, targetBranch : TargetBranchNames,
                registryUrl : RegistryUrls, prereleaseHasValue : BOOLEAN]
  /\ shouldPublish \in [Packages -> BOOLEAN]
  /\ pc = "start"
  /\ mode = "none"
  /\ orderedChanges = << >>
  /\ tempBranch = ""
  /\ idx = 0
  /\ updated = FALSE
  /\ trace = << >>
  /\ manifestVersion = [p \in Packages |-> 1]
  /\ changelogsUpdated = FALSE
  /\ changeFilesDeleted = FALSE

(* ---- _execCommand: print the line, then spawn only if shouldExecute.   *)
(* Utilities.executeCommand throws when the process fails and nothing in  *)
(* this file catches it, so the run stops where it is.                    *)
ExitStatuses(shouldExecute) ==
  IF shouldExecute THEN BOOLEAN ELSE {TRUE}

AfterCallSwallowsFailure(ok, next) == next

AfterCall(ok, next) ==
  IF ok THEN next ELSE "aborted"

(* Lines 242-250: envArgs, the process environment overlaid with env. *)
envArgs(env) ==
  [defined |-> TRUE,
   vars |-> {v \in ProcessEnv : ~\E w \in env.vars : w[1] = v[1]} \cup env.vars]

(* Lines 257-262: the last argument of Utilities.executeCommand is env, the *)
(* parameter, and not envArgs.                                              *)
executeCommandEnv(env) == env

_execCommandSilentDryRun(shouldExecute, cmd, pkg, ref, arg, env, next) ==
  IF shouldExecute
  THEN \E ok \in BOOLEAN :
         /\ trace' = Append(trace, [Entry("gate", cmd, pkg, TRUE, ref, arg, ok)
                                      EXCEPT !.env = executeCommandEnv(env)])
         /\ pc' = AfterCall(ok, next)
  ELSE /\ pc' = next
       /\ UNCHANGED trace

_execCommand(shouldExecute, cmd, pkg, ref, arg, env, next) ==
  \E ok \in ExitStatuses(shouldExecute) :
    /\ trace' = Append(trace, [Entry("gate", cmd, pkg, shouldExecute, ref, arg, ok)
                                 EXCEPT !.env = IF shouldExecute
                                                THEN executeCommandEnv(env)
                                                ELSE undefinedEnv])
    /\ pc' = AfterCall(ok, next)

GitGateNeedsApply == Truthy(flags.targetBranch) /\ flags.apply

GitGate == Truthy(flags.targetBranch)

_gitCheckout(branchName, createBranch, next) ==
  _execCommand(GitGate, IF createBranch THEN "checkout -b" ELSE "checkout",
               NoPackage, branchName, << >>, undefinedEnv, next)

_gitMerge(branchName, next) ==
  _execCommand(GitGate, "merge", NoPackage, branchName, << >>, undefinedEnv, next)

_gitDeleteBranchLocal(branchName, next) ==
  _execCommand(GitGate, "branch -d", NoPackage, branchName, << >>, undefinedEnv, next)

_gitDeleteBranchRemoteRepeatsLocal(branchName, next) ==
  _execCommand(GitGate, "branch -d", NoPackage, branchName, << >>, undefinedEnv, next)

_gitDeleteBranchRemote(branchName, next) ==
  _execCommand(GitGate, "push --delete", NoPackage, branchName, << >>, undefinedEnv, next)

_gitPull(next) ==
  _execCommand(GitGate, "pull", NoPackage, flags.targetBranch, << >>, undefinedEnv, next)

_gitAddChanges(next) ==
  _execCommand(GitGate, "add", NoPackage, "", << >>, undefinedEnv, next)

_gitCommit(next) ==
  _execCommand(GitGate, "commit", NoPackage, "", << >>, undefinedEnv, next)

_gitPush(branchName, next) ==
  _execCommand(GitGate, "push", NoPackage, branchName, << >>, undefinedEnv, next)

TagGateIgnoresRegistry == Truthy(flags.targetBranch) /\ flags.publish

TagGate == Truthy(flags.targetBranch) /\ flags.publish /\ ~Truthy(flags.registryUrl)

_gitAddTag(packageName, packageVersion, next) ==
  _execCommand(TagGate, "tag", packageName, "", <<packageVersion>>, undefinedEnv, next)

PublishGateNeedsApply == flags.publish /\ flags.apply

PublishGate == flags.publish

(* Lines 321-330: env starts as a copy of process.env and gets the override. *)
PublishEnv ==
  IF Truthy(flags.registryUrl)
  THEN SetEnv(_getEnvArgs, "npm_config_registry", flags.registryUrl)
  ELSE _getEnvArgs

_npmPublish(packageName, next) ==
  IF shouldPublish[packageName]
  THEN _execCommand(PublishGate, "publish", packageName, flags.registryUrl, << >>,
                    PublishEnv, next)
  ELSE /\ pc' = next
       /\ UNCHANGED trace

_packageExistsSkipsFirst(publishedVersions, version) ==
  IndexOf(publishedVersions, version) > 0

_packageExists(publishedVersions, version) ==
  IndexOf(publishedVersions, version) >= 0

(* ---- onExecute, lines 124-145: policy check, then exactly one branch ---- *)
SelectModeIgnoresPublish(f) ==
  IF f.regenerateChangelogs THEN "regenerate"
  ELSE IF f.includeAll THEN "publishAll"
  ELSE "publishChanges"

SelectMode(f) ==
  IF f.regenerateChangelogs THEN "regenerate"
  ELSE IF f.includeAll /\ f.publish THEN "publishAll"
  ELSE "publishChanges"

onExecute ==
  /\ pc = "start"
  /\ \E policyOk \in BOOLEAN :
       IF ~policyOk
       THEN /\ pc' = "exit1"
            /\ UNCHANGED <<mode, idx, trace>>
       ELSE /\ mode' = SelectMode(flags)
            /\ CASE mode' = "regenerate" ->
                      /\ trace' = Append(trace, Entry("call", "regenerateChangelogs",
                                                      NoPackage, TRUE, "", << >>, TRUE))
                      /\ pc' = "returned"
                      /\ UNCHANGED idx
                 [] mode' = "publishAll" ->
                      /\ pc' = "pa_scan"
                      /\ idx' = 1
                      /\ UNCHANGED trace
                 [] OTHER ->
                      /\ pc' = "resolve"
                      /\ UNCHANGED <<idx, trace>>
  /\ UNCHANGED <<flags, shouldPublish, orderedChanges, tempBranch, updated,
                 manifestVersion, changelogsUpdated, changeFilesDeleted>>

(* ---- _publishChanges, lines 150-203 ---- *)
HasChangesOffByOne(changes) == Len(changes) >= 0

HasChanges(changes) == Len(changes) > 0

ResolveChanges ==
  /\ pc = "resolve"
  /\ \/ /\ trace' = Append(trace, Entry("call", "findChangeRequests", NoPackage, TRUE,
                                         "", << >>, FALSE))
        /\ pc' = AfterCall(FALSE, "checkoutTemp")
        /\ UNCHANGED <<orderedChanges, tempBranch>>
     \/ \E out \in ResolverOutputs :
          /\ trace' = Append(trace, Entry("call", "findChangeRequests", NoPackage, TRUE,
                                          "", << >>, TRUE))
          /\ orderedChanges' = out
          /\ IF HasChanges(out)
             THEN /\ tempBranch' = TempBranchName
                  /\ pc' = AfterCall(TRUE, "checkoutTemp")
             ELSE /\ pc' = "finish"
                  /\ UNCHANGED tempBranch
  /\ UNCHANGED <<flags, shouldPublish, mode, idx, updated,
                 manifestVersion, changelogsUpdated, changeFilesDeleted>>

Frame == UNCHANGED <<flags, shouldPublish, mode, orderedChanges, tempBranch, idx, updated,
                     manifestVersion, changelogsUpdated, changeFilesDeleted>>

CheckoutTemp ==
  /\ pc = "checkoutTemp"
  /\ _gitCheckout(tempBranch, TRUE, "updatePackages")
  /\ Frame

(* PublishUtilities.updatePackages(allChanges, allPackages, shouldCommit, token): *)
(* writes each record's newVersion into its package.json when shouldCommit.      *)
updatePackages(shouldCommit) ==
  /\ trace' = Append(trace, Entry("call", "updatePackages", NoPackage, shouldCommit, "", << >>, TRUE))
  /\ manifestVersion' =
       IF shouldCommit
       THEN [p \in Packages |->
               IF \E i \in 1..Len(orderedChanges) : orderedChanges[i].packageName = p
               THEN (CHOOSE c \in Range(orderedChanges) : c.packageName = p).newVersion
               ELSE manifestVersion[p]]
       ELSE manifestVersion

(* ChangelogGenerator.updateChangelogs(allChanges, allPackages, shouldCommit) *)
updateChangelogs(shouldCommit) ==
  /\ trace' = Append(trace, Entry("call", "updateChangelogs", NoPackage, shouldCommit, "", << >>, TRUE))
  /\ changelogsUpdated' = (changelogsUpdated \/ shouldCommit)

(* ChangeFiles.deleteAll(shouldDelete) *)
deleteAll(shouldDelete) ==
  /\ trace' = Append(trace, Entry("call", "deleteAll", NoPackage, shouldDelete, "", << >>, TRUE))
  /\ changeFilesDeleted' = (changeFilesDeleted \/ shouldDelete)

SkipChangelogAndDeleteInverted == ~flags.prereleaseHasValue

SkipChangelogAndDelete == flags.prereleaseHasValue

UpdatePackagesStepSharesDeleteGate ==
  /\ pc = "updatePackages"
  /\ updatePackages(flags.apply \/ Truthy(flags.targetBranch))
  /\ pc' = IF SkipChangelogAndDelete THEN "gitAdd" ELSE "updateChangelogs"
  /\ UNCHANGED <<flags, shouldPublish, mode, orderedChanges, tempBranch, idx, updated,
                 changelogsUpdated, changeFilesDeleted>>

UpdatePackagesStep ==
  /\ pc = "updatePackages"
  /\ updatePackages(flags.apply)
  /\ pc' = IF SkipChangelogAndDelete THEN "gitAdd" ELSE "updateChangelogs"
  /\ UNCHANGED <<flags, shouldPublish, mode, orderedChanges, tempBranch, idx, updated,
                 changelogsUpdated, changeFilesDeleted>>

UpdateChangelogsStepSharesDeleteGate ==
  /\ pc = "updateChangelogs"
  /\ updateChangelogs(flags.apply \/ Truthy(flags.targetBranch))
  /\ pc' = "deleteAll"
  /\ UNCHANGED <<flags, shouldPublish, mode, orderedChanges, tempBranch, idx, updated,
                 manifestVersion, changeFilesDeleted>>

UpdateChangelogsStep ==
  /\ pc = "updateChangelogs"
  /\ updateChangelogs(flags.apply)
  /\ pc' = "deleteAll"
  /\ UNCHANGED <<flags, shouldPublish, mode, orderedChanges, tempBranch, idx, updated,
                 manifestVersion, changeFilesDeleted>>

DeleteGateSingleNegation == flags.apply \/ ~Truthy(flags.targetBranch)

DeleteGateApplyOnly == flags.apply

DeleteGate == flags.apply \/ Truthy(flags.targetBranch)

DeleteAllStep ==
  /\ pc = "deleteAll"
  /\ deleteAll(DeleteGate)
  /\ pc' = "gitAdd"
  /\ UNCHANGED <<flags, shouldPublish, mode, orderedChanges, tempBranch, idx, updated,
                 manifestVersion, changelogsUpdated>>

GitAdd ==
  /\ pc = "gitAdd"
  /\ _gitAddChanges("gitCommit")
  /\ Frame

GitCommitThenPublish ==
  /\ pc = "gitCommit"
  /\ _gitCommit("publishLoop")
  /\ idx' = 1
  /\ UNCHANGED <<flags, shouldPublish, mode, orderedChanges, tempBranch, updated,
                 manifestVersion, changelogsUpdated, changeFilesDeleted>>

GitCommit ==
  /\ pc = "gitCommit"
  /\ _gitCommit("pushTemp1")
  /\ Frame

PushTemp1 ==
  /\ pc = "pushTemp1"
  /\ _gitPush(tempBranch, "publishLoop")
  /\ idx' = 1
  /\ UNCHANGED <<flags, shouldPublish, mode, orderedChanges, tempBranch, updated,
                 manifestVersion, changelogsUpdated, changeFilesDeleted>>

PublishableInclusive(change) == change.changeType >= dependency

Publishable(change) == change.changeType > dependency

(* One iteration of the for loop of lines 186-190, or its exit. *)
PublishLoop ==
  /\ pc = "publishLoop"
  /\ IF idx > Len(orderedChanges)
     THEN /\ pc' = "tagLoop"
          /\ idx' = 1
          /\ UNCHANGED trace
     ELSE /\ idx' = idx + 1
          /\ IF Publishable(orderedChanges[idx])
             THEN _npmPublish(orderedChanges[idx].packageName, "publishLoop")
             ELSE UNCHANGED <<pc, trace>>
  /\ UNCHANGED <<flags, shouldPublish, mode, orderedChanges, tempBranch, updated,
                 manifestVersion, changelogsUpdated, changeFilesDeleted>>

TaggableIgnoresShouldPublish(change) == change.changeType > dependency

Taggable(change) == change.changeType > dependency /\ shouldPublish[change.packageName]

_gitAddTagsBackwards ==
  /\ pc = "tagLoop"
  /\ IF idx > Len(orderedChanges)
     THEN /\ pc' = "pushTemp2"
          /\ UNCHANGED <<idx, trace>>
     ELSE /\ idx' = idx + 1
          /\ LET change == orderedChanges[Len(orderedChanges) + 1 - idx]
             IN IF Taggable(change)
                THEN _gitAddTag(change.packageName, change.newVersion, "tagLoop")
                ELSE UNCHANGED <<pc, trace>>
  /\ UNCHANGED <<flags, shouldPublish, mode, orderedChanges, tempBranch, updated,
                 manifestVersion, changelogsUpdated, changeFilesDeleted>>

(* One iteration of the for loop of _gitAddTags, lines 289-298, or its exit. *)
_gitAddTags ==
  /\ pc = "tagLoop"
  /\ IF idx > Len(orderedChanges)
     THEN /\ pc' = "pushTemp2"
          /\ UNCHANGED <<idx, trace>>
     ELSE /\ idx' = idx + 1
          /\ IF Taggable(orderedChanges[idx])
             THEN _gitAddTag(orderedChanges[idx].packageName,
                             orderedChanges[idx].newVersion, "tagLoop")
             ELSE UNCHANGED <<pc, trace>>
  /\ UNCHANGED <<flags, shouldPublish, mode, orderedChanges, tempBranch, updated,
                 manifestVersion, changelogsUpdated, changeFilesDeleted>>

PushTemp2 ==
  /\ pc = "pushTemp2"
  /\ _gitPush(tempBranch, "checkoutTarget")
  /\ Frame

CheckoutTarget ==
  /\ pc = "checkoutTarget"
  /\ _gitCheckout(flags.targetBranch, FALSE, "pull")
  /\ Frame

Pull ==
  /\ pc = "pull"
  /\ _gitPull("merge")
  /\ Frame

Merge ==
  /\ pc = "merge"
  /\ _gitMerge(tempBranch, "pushTarget")
  /\ Frame

PushTarget ==
  /\ pc = "pushTarget"
  /\ _gitPush(flags.targetBranch, "deleteLocal")
  /\ Frame

DeleteLocal ==
  /\ pc = "deleteLocal"
  /\ _gitDeleteBranchLocal(tempBranch, "deleteRemote")
  /\ Frame

DeleteRemote ==
  /\ pc = "deleteRemote"
  /\ _gitDeleteBranchRemote(tempBranch, "finish")
  /\ Frame

(* ---- _publishAll, lines 205-221 ---- *)
NeedsPublish(force, exists) == force \/ ~exists

PushAfterScanAlways(anyUpdated) == TRUE

PushAfterScan(anyUpdated) == anyUpdated

(* The head of one forEach iteration: shouldPublish, force, registry probe. *)
PublishAllScan ==
  /\ pc = "pa_scan"
  /\ IF idx > NumPackages
     THEN /\ pc' = IF PushAfterScan(updated) THEN "pa_push" ELSE "finish"
          /\ UNCHANGED <<idx, trace>>
     ELSE IF ~shouldPublish[idx]
     THEN /\ idx' = idx + 1
          /\ UNCHANGED <<pc, trace>>
     ELSE IF flags.force
     THEN /\ pc' = "pa_publish"
          /\ UNCHANGED <<idx, trace>>
     ELSE \/ /\ pc' = AfterCall(FALSE, "pa_publish")     \* Npm.publishedVersions throws
             /\ trace' = Append(trace, Entry("probe", "publishedVersions", idx, TRUE,
                                             flags.registryUrl, << >>, FALSE))
             /\ UNCHANGED idx
          \/ \E publishedVersions \in PublishedLists :
               LET probe == Entry("probe", "publishedVersions", idx, TRUE,
                                  flags.registryUrl, publishedVersions, TRUE)
               IN IF NeedsPublish(flags.force,
                                  _packageExists(publishedVersions, manifestVersion[idx]))
                  THEN /\ trace' = Append(trace, probe)
                       /\ pc' = "pa_publish"
                       /\ UNCHANGED idx
                  ELSE /\ trace' = Append(Append(trace, probe),
                                          Entry("log", "skip", idx, FALSE, "", << >>, TRUE))
                       /\ idx' = idx + 1
                       /\ UNCHANGED pc
  /\ UNCHANGED <<flags, shouldPublish, mode, orderedChanges, tempBranch, updated,
                 manifestVersion, changelogsUpdated, changeFilesDeleted>>

PublishAllPublish ==
  /\ pc = "pa_publish"
  /\ _npmPublish(idx, "pa_tag")
  /\ Frame

PublishAllTag ==
  /\ pc = "pa_tag"
  /\ _gitAddTag(idx, manifestVersion[idx], "pa_scan")
  /\ updated' = (pc' = "pa_scan" \/ updated)
  /\ idx' = IF pc' = "pa_scan" THEN idx + 1 ELSE idx
  /\ UNCHANGED <<flags, shouldPublish, mode, orderedChanges, tempBranch,
                 manifestVersion, changelogsUpdated, changeFilesDeleted>>

PublishAllPush ==
  /\ pc = "pa_push"
  /\ _gitPush(flags.targetBranch, "finish")
  /\ Frame

(* ---- line 147: the success message ---- *)
Finish ==
  /\ pc = "finish"
  /\ trace' = Append(trace, Entry("log", "finished", NoPackage, FALSE, "", << >>, TRUE))
  /\ pc' = "done"
  /\ Frame

Next ==
  \/ onExecute
  \/ ResolveChanges
  \/ CheckoutTemp
  \/ UpdatePackagesStep
  \/ UpdateChangelogsStep
  \/ DeleteAllStep
  \/ GitAdd
  \/ GitCommit
  \/ PushTemp1
  \/ PublishLoop
  \/ _gitAddTags
  \/ PushTemp2
  \/ CheckoutTarget
  \/ Pull
  \/ Merge
  \/ PushTarget
  \/ DeleteLocal
  \/ DeleteRemote
  \/ PublishAllScan
  \/ PublishAllPublish
  \/ PublishAllTag
  \/ PublishAllPush
  \/ Finish

Spec == Init /\ [][Next]_vars

TypeOK ==
  /\ pc \in {"start", "exit1", "returned", "resolve", "checkoutTemp", "updatePackages",
             "updateChangelogs", "deleteAll", "gitAdd", "gitCommit", "pushTemp1",
             "publishLoop", "tagLoop", "pushTemp2", "checkoutTarget", "pull", "merge",
             "pushTarget", "deleteLocal", "deleteRemote", "pa_scan", "pa_publish",
             "pa_tag", "pa_push", "finish", "done", "aborted"}
  /\ mode \in {"none", "regenerate", "publishAll", "publishChanges"}
  /\ orderedChanges \in ResolverOutputs
  /\ updated \in BOOLEAN
  /\ manifestVersion \in [Packages -> Versions]

(* ======================= properties ======================= *)
Selective == mode = "publishChanges"
PublishAll == mode = "publishAll"

Lines == 1..Len(trace)
GateLines == {i \in Lines : trace[i].kind = "gate"}
Spawned == {i \in Lines : trace[i].kind = "gate" /\ trace[i].exec}
CallsOf(cmd) == {i \in Lines : trace[i].kind = "call" /\ trace[i].cmd = cmd}
GatesOf(cmd, p) ==
  {i \in Lines : trace[i].kind = "gate" /\ trace[i].cmd = cmd /\ trace[i].pkg = p}
SpawnedOf(cmd, p) ==
  {i \in Lines : /\ trace[i].kind = "gate" /\ trace[i].exec
                 /\ trace[i].cmd = cmd /\ trace[i].pkg = p}

GitSteps == {"checkout -b", "add", "commit", "push", "checkout", "pull", "merge",
             "branch -d", "push --delete"}
ManifestsUntouched == manifestVersion = [p \in Packages |-> 1]
NoFlags == ~flags.apply /\ ~Truthy(flags.targetBranch) /\ ~flags.publish

(* Records the publish loop and the tag loop both reach the gate for. *)
PlannedPackages ==
  {k \in 1..Len(orderedChanges) :
     orderedChanges[k].changeType > dependency /\ shouldPublish[orderedChanges[k].packageName]}

AfterTagLoop ==
  pc \in {"pushTemp2", "checkoutTarget", "pull", "merge", "pushTarget", "deleteLocal",
          "deleteRemote", "finish", "done"}

(* C1: a selective run with none of apply, targetBranch, publish set leaves  *)
(* the manifests and the change files alone and spawns no process: every     *)
(* _execCommand call is a DRYRUN; the complete run still prints one line per *)
(* planned command (eleven git steps, one publish and one tag per planned    *)
(* package).                                                                 *)
C1_DryRunMutatesNothing ==
  (Selective /\ NoFlags) =>
     /\ ManifestsUntouched
     /\ ~changeFilesDeleted
     /\ Spawned = {}
     /\ \A i \in Lines : trace[i].kind = "call" /\ trace[i].cmd # "findChangeRequests"
                           => ~trace[i].exec
     /\ (pc = "done" /\ HasChanges(orderedChanges))
           => Cardinality(GateLines) = 11 + 2 * Cardinality(PlannedPackages)

C1_Witness ==
  /\ Selective /\ NoFlags /\ pc = "done"
  /\ flags.force /\ Truthy(flags.registryUrl)
  /\ Len(orderedChanges) = 2
  /\ Cardinality(GateLines) = 15

(* C2: when change resolution returns an empty list the selective run goes   *)
(* straight to its successful end: no temporary branch, no _execCommand      *)
(* line, no manifest, changelog or change-file call, whatever the flags.     *)
ResolvedEmpty == Selective /\ orderedChanges = << >> /\ pc \notin {"resolve", "aborted"}

C2_EmptyChangeListDoesNothing ==
  ResolvedEmpty =>
     /\ pc \in {"finish", "done"}
     /\ tempBranch = ""
     /\ GateLines = {}
     /\ CallsOf("updatePackages") \cup CallsOf("updateChangelogs") \cup CallsOf("deleteAll") = {}
     /\ ManifestsUntouched /\ ~changelogsUpdated /\ ~changeFilesDeleted
     /\ pc = "done" => trace[Len(trace)].cmd = "finished"

C2_Witness ==
  /\ ResolvedEmpty /\ pc = "done"
  /\ flags.apply /\ Truthy(flags.targetBranch) /\ flags.publish /\ Truthy(flags.registryUrl)

(* C3: in the selective workflow a record of type dependency or lower never  *)
(* reaches the publish or the tag gate; a record above dependency has its    *)
(* publish spawned iff publish is set and the project's shouldPublish holds, *)
(* and its tag spawned iff moreover targetBranch is set and registryUrl is   *)
(* not.                                                                      *)
PublishExecutes(p) == flags.publish /\ shouldPublish[p]
TagExecutes(p) == PublishExecutes(p) /\ Truthy(flags.targetBranch) /\ ~Truthy(flags.registryUrl)

C3_PublishAndTagGating ==
  Selective =>
     /\ \A i \in Lines : (trace[i].kind = "gate" /\ trace[i].cmd \in {"publish", "tag"}) =>
          /\ \E k \in 1..Len(orderedChanges) :
               /\ orderedChanges[k].packageName = trace[i].pkg
               /\ orderedChanges[k].changeType > dependency
          /\ trace[i].cmd = "publish" => (trace[i].exec <=> PublishExecutes(trace[i].pkg))
          /\ trace[i].cmd = "tag" => (trace[i].exec <=> TagExecutes(trace[i].pkg))
     /\ AfterTagLoop =>
          \A k \in 1..Len(orderedChanges) :
             LET c == orderedChanges[k]
             IN IF c.changeType <= dependency
                THEN GatesOf("publish", c.packageName) \cup GatesOf("tag", c.packageName) = {}
                ELSE /\ SpawnedOf("publish", c.packageName) # {}
                         <=> PublishExecutes(c.packageName)
                     /\ SpawnedOf("tag", c.packageName) # {} <=> TagExecutes(c.packageName)

C3_Witness ==
  /\ Selective /\ pc = "done"
  /\ \E a, b \in Range(orderedChanges) :
       /\ a.changeType = dependency /\ shouldPublish[a.packageName]
       /\ b.changeType > dependency /\ SpawnedOf("tag", b.packageName) # {}

(* C4: in either workflow, when registryUrl is supplied no tag command is    *)
(* ever spawned, while publishes still follow the publish flag and the other *)
(* git steps still follow targetBranch.                                      *)
C4_RegistryOverrideSuppressesTags ==
  ((Selective \/ PublishAll) /\ Truthy(flags.registryUrl)) =>
     \A i \in Lines : trace[i].kind = "gate" =>
        /\ trace[i].cmd = "tag" => ~trace[i].exec
        /\ trace[i].cmd = "publish" => (trace[i].exec <=> flags.publish)
        /\ trace[i].cmd \in GitSteps => (trace[i].exec <=> Truthy(flags.targetBranch))

C4_Witness ==
  /\ PublishAll /\ Truthy(flags.registryUrl) /\ pc = "done"
  /\ \E p \in Packages : GatesOf("tag", p) # {} /\ SpawnedOf("publish", p) # {}
  /\ SpawnedOf("push", NoPackage) # {}

(* C5: every git step of the selective workflow other than tagging is        *)
(* spawned iff targetBranch is present, whatever apply and publish are, and  *)
(* a complete run reaches all eleven of them; a run with only apply set      *)
(* writes the manifests and spawns nothing.                                  *)
GitStepsOfARun ==
  <<"checkout -b", "add", "commit", "push", "push", "checkout", "pull", "merge", "push",
    "branch -d", "push --delete">>

IsGitStep(e) == e.kind = "gate" /\ e.cmd \in GitSteps

GitStepsSoFar ==
  LET git == SelectSeq(trace, IsGitStep)
  IN [i \in 1..Len(git) |-> git[i].cmd]

C5_GitStepsFollowTargetBranch ==
  Selective =>
     /\ \A i \in Lines :
          (trace[i].kind = "gate" /\ trace[i].cmd \in GitSteps)
             => (trace[i].exec <=> Truthy(flags.targetBranch))
     /\ (pc = "done" /\ HasChanges(orderedChanges)) => GitStepsSoFar = GitStepsOfARun
     /\ (flags.apply /\ ~Truthy(flags.targetBranch) /\ ~flags.publish) =>
          /\ Spawned = {}
          /\ CallsOf("updatePackages") # {} =>
               \A c \in Range(orderedChanges) : manifestVersion[c.packageName] = c.newVersion

C5_Witness ==
  /\ Selective /\ pc = "done"
  /\ flags.apply /\ ~Truthy(flags.targetBranch) /\ ~flags.publish
  /\ \E p \in Packages : manifestVersion[p] = 2
  /\ Len(GitStepsSoFar) = 11

(* C6: in a selective run with changes, a prerelease token keeps both the    *)
(* changelog update and the change-file deletion from being called; without  *)
(* a token both are called once before git add, and take effect when apply   *)
(* is set.                                                                   *)
C6_PrereleaseSkipsChangelogAndDeletion ==
  (Selective /\ HasChanges(orderedChanges)) =>
     IF flags.prereleaseHasValue
     THEN /\ CallsOf("updateChangelogs") \cup CallsOf("deleteAll") = {}
          /\ ~changelogsUpdated /\ ~changeFilesDeleted
     ELSE GatesOf("add", NoPackage) # {} =>
            /\ Cardinality(CallsOf("updateChangelogs")) = 1
            /\ Cardinality(CallsOf("deleteAll")) = 1
            /\ flags.apply =>
                 /\ changelogsUpdated /\ changeFilesDeleted
                 /\ \A i \in CallsOf("updateChangelogs") \cup CallsOf("deleteAll") : trace[i].exec

C6_Witness ==
  /\ Selective /\ HasChanges(orderedChanges) /\ pc = "done"
  /\ flags.prereleaseHasValue /\ flags.apply /\ Truthy(flags.targetBranch)
  /\ \E p \in Packages : manifestVersion[p] = 2

(* ---- publish-all ---- *)
ScanDone == PublishAll /\ pc \in {"pa_push", "finish", "done"}
ProbesOf(p) == {i \in Lines : trace[i].kind = "probe" /\ trace[i].pkg = p}
InRegistry(p) ==
  \E i \in ProbesOf(p) : trace[i].ok /\ manifestVersion[p] \in Range(trace[i].arg)
Untouched(p) == GatesOf("publish", p) \cup GatesOf("tag", p) = {}

(* C7 as stated: after the scan every project with shouldPublish false is    *)
(* neither probed, published nor tagged; one with shouldPublish true and     *)
(* (force or version not in the registry) is published and then tagged; one  *)
(* already in the registry without force has no publish and no tag.          *)
C7_AsStated ==
  ScanDone =>
    \A p \in Packages :
       IF ~shouldPublish[p] THEN ProbesOf(p) = {} /\ Untouched(p)
       ELSE IF flags.force \/ ~InRegistry(p)
       THEN /\ SpawnedOf("publish", p) # {}
            /\ SpawnedOf("tag", p) # {}
            /\ \A i \in SpawnedOf("publish", p), j \in SpawnedOf("tag", p) : i < j
       ELSE Untouched(p)

(* C7 amended: as above, except that the published project's tag step is     *)
(* issued after its publish and is really run only when targetBranch is set  *)
(* and registryUrl is not; and no project is published unless it is          *)
(* shouldPublish and either forced or missing from the registry.             *)
C7_PublishAllPerProject ==
  PublishAll =>
    /\ \A p \in Packages : GatesOf("publish", p) # {} =>
         shouldPublish[p] /\ (flags.force \/ ~InRegistry(p))
    /\ ScanDone =>
         \A p \in Packages :
            IF ~shouldPublish[p] THEN ProbesOf(p) = {} /\ Untouched(p)
            ELSE IF flags.force \/ ~InRegistry(p)
            THEN /\ Cardinality(SpawnedOf("publish", p)) = 1
                 /\ Cardinality(GatesOf("tag", p)) = 1
                 /\ \A i \in SpawnedOf("publish", p), j \in GatesOf("tag", p) :
                      /\ i < j
                      /\ trace[j].exec <=>
                           (Truthy(flags.targetBranch) /\ ~Truthy(flags.registryUrl))
            ELSE Untouched(p)

C7_Witness ==
  /\ PublishAll /\ pc = "done" /\ ~flags.force /\ ~Truthy(flags.targetBranch)
  /\ \E p, q \in Packages :
       /\ SpawnedOf("publish", p) # {} /\ ProbesOf(p) # {}
       /\ \E j \in GatesOf("tag", p) : ~trace[j].exec
       /\ shouldPublish[q] /\ InRegistry(q)

(* C8 as stated: at the end of a publish-all run the target branch has been  *)
(* pushed iff some package was published, and the push follows every publish *)
(* and tag.                                                                  *)
SomePublished == \E p \in Packages : SpawnedOf("publish", p) # {}
PushFollowsScan ==
  \A i \in GatesOf("push", NoPackage), j \in GateLines :
     trace[j].cmd \in {"publish", "tag"} => j < i

C8_AsStated ==
  (PublishAll /\ pc = "done") =>
     /\ SpawnedOf("push", NoPackage) # {} <=> SomePublished
     /\ PushFollowsScan

(* C8 amended: the push step is issued after the scan iff some package was   *)
(* published, it is really run only when targetBranch is set, and it follows *)
(* every publish and tag.                                                    *)
C8_PushIffPublished ==
  PublishAll =>
     /\ GatesOf("push", NoPackage) # {} => SomePublished
     /\ pc = "done" => (Cardinality(GatesOf("push", NoPackage)) = 1 <=> SomePublished)
     /\ \A i \in GatesOf("push", NoPackage) : trace[i].exec <=> Truthy(flags.targetBranch)
     /\ PushFollowsScan

C8_Witness ==
  /\ PublishAll /\ pc = "done" /\ ~flags.force
  /\ SpawnedOf("push", NoPackage) # {}
  /\ \E p, q \in Packages : SpawnedOf("tag", p) # {} /\ InRegistry(q)

(* C9: once the policy check has passed exactly one mode runs: changelog     *)
(* regeneration alone if regenerateChangelogs is set, else publish-all iff   *)
(* includeAll and publish are both set, else the selective workflow; the     *)
(* steps of one workflow are never taken in a run of the other.              *)
SelectivePositions ==
  {"resolve", "checkoutTemp", "updatePackages", "updateChangelogs", "deleteAll", "gitAdd",
   "gitCommit", "pushTemp1", "publishLoop", "tagLoop", "pushTemp2", "checkoutTarget", "pull",
   "merge", "pushTarget", "deleteLocal", "deleteRemote"}
PublishAllPositions == {"pa_scan", "pa_publish", "pa_tag", "pa_push"}
SelectiveFootprint ==
  \E i \in Lines : \/ trace[i].kind = "call" /\ trace[i].cmd # "regenerateChangelogs"
                   \/ trace[i].kind = "gate" /\ trace[i].cmd \in GitSteps \ {"push"}
PublishAllFootprint ==
  \E i \in Lines : trace[i].kind = "probe" \/ trace[i].cmd = "skip"

C9_ExactlyOneMode ==
  /\ pc = "exit1" => mode = "none" /\ trace = << >>
  /\ pc \notin {"start", "exit1"} =>
       /\ mode = "regenerate" <=> flags.regenerateChangelogs
       /\ mode = "publishAll" <=>
            (~flags.regenerateChangelogs /\ flags.includeAll /\ flags.publish)
       /\ mode = "publishChanges" <=>
            (~flags.regenerateChangelogs /\ ~(flags.includeAll /\ flags.publish))
  /\ mode = "regenerate" =>
       /\ pc = "returned"
       /\ Len(trace) = 1 /\ trace[1].cmd = "regenerateChangelogs"
       /\ ManifestsUntouched /\ ~changelogsUpdated /\ ~changeFilesDeleted
  /\ pc \in SelectivePositions => Selective
  /\ pc \in PublishAllPositions => PublishAll
  /\ Selective => ~PublishAllFootprint
  /\ PublishAll => ~SelectiveFootprint /\ orderedChanges = << >> /\ tempBranch = ""

C9_Witness ==
  /\ Selective /\ pc = "done" /\ HasChanges(orderedChanges)
  /\ flags.includeAll /\ ~flags.publish /\ SelectiveFootprint

(* C10: a failing command, resolver or probe ends the run: the failed call   *)
(* stays the last thing in the trace, the step that fails changes nothing on *)
(* disk, and once aborted nothing moves any more, so whatever was done       *)
(* before the failure stays as it was.                                       *)
Failures == {i \in Lines : ~trace[i].ok}
Disk == <<manifestVersion, changelogsUpdated, changeFilesDeleted>>

FailureIsLast ==
  /\ \A i \in Failures : i = Len(trace) /\ pc = "aborted"
  /\ pc = "aborted" => Failures # {}

AbortStep ==
  /\ (pc # "aborted" /\ pc' = "aborted") =>
        /\ UNCHANGED Disk
        /\ Len(trace') = Len(trace) + 1
        /\ SubSeq(trace', 1, Len(trace)) = trace
  /\ pc = "aborted" => UNCHANGED vars

C10_FailureAbortsWithoutRollback == []FailureIsLast /\ [][AbortStep]_vars

C10_Witness ==
  /\ pc = "aborted" /\ Selective
  /\ trace[Len(trace)].cmd = "merge"
  /\ \E p \in Packages : manifestVersion[p] = 2 /\ SpawnedOf("publish", p) # {}
  /\ changeFilesDeleted /\ tempBranch # ""

(* C11: a gate call that is not to execute still prints its line and spawns  *)
(* nothing (so it cannot fail and hands over no environment); and the        *)
(* commands printed by a complete selective run, in order, are a function of *)
(* the change list and the projects alone: apply, publish and targetBranch   *)
(* only change which of them are EXECUTING.                                  *)
IsGate(e) == e.kind = "gate"
IsPlanned(c) == c.changeType > dependency /\ shouldPublish[c.packageName]

GateCommandsSoFar ==
  LET g == SelectSeq(trace, IsGate)
  IN [i \in 1..Len(g) |-> <<g[i].cmd, g[i].pkg>>]

PlannedCommands ==
  LET planned == SelectSeq(orderedChanges, IsPlanned)
  IN <<<<"checkout -b", NoPackage>>, <<"add", NoPackage>>, <<"commit", NoPackage>>,
       <<"push", NoPackage>>>>
     \o [i \in 1..Len(planned) |-> <<"publish", planned[i].packageName>>]
     \o [i \in 1..Len(planned) |-> <<"tag", planned[i].packageName>>]
     \o <<<<"push", NoPackage>>, <<"checkout", NoPackage>>, <<"pull", NoPackage>>,
          <<"merge", NoPackage>>, <<"push", NoPackage>>, <<"branch -d", NoPackage>>,
          <<"push --delete", NoPackage>>>>

GatePrintsWhateverExecutes ==
  /\ \A i \in Lines : (trace[i].kind = "gate" /\ ~trace[i].exec)
                         => (trace[i].ok /\ ~trace[i].env.defined)
  /\ (Selective /\ pc = "done" /\ HasChanges(orderedChanges))
        => GateCommandsSoFar = PlannedCommands

HasRegistryOverride(env) == \E v \in env.vars : v[1] = "npm_config_registry"

C17_AsStated ==
  \A i \in Lines : (trace[i].kind = "gate" /\ trace[i].exec) =>
     /\ trace[i].env.defined
     /\ ProcessEnv \subseteq trace[i].env.vars
     /\ HasRegistryOverride(trace[i].env)
          <=> (trace[i].cmd = "publish" /\ Truthy(flags.registryUrl))
     /\ HasRegistryOverride(trace[i].env)
          => <<"npm_config_registry", flags.registryUrl>> \in trace[i].env.vars

(* C12 as stated: every change on disk (manifests, changelogs, change files) *)
(* is matched by an EXECUTING gate line for the step that made it.           *)
ExecutedGateFor(cmd) ==
  \E i \in Lines : trace[i].kind = "gate" /\ trace[i].exec /\ trace[i].cmd = cmd

C12_AsStated ==
  /\ ~ManifestsUntouched => ExecutedGateFor("updatePackages")
  /\ changelogsUpdated => ExecutedGateFor("updateChangelogs")
  /\ changeFilesDeleted => ExecutedGateFor("deleteAll")

(* C12: in the selective workflow the gate covers the commands (git, publish, *)
(* tag) and nothing else; manifest mutation, changelog update and change-file *)
(* deletion are direct calls that take their own flag (apply, apply, apply or *)
(* targetBranch), and the disk changes only through such a call made with a   *)
(* true flag.                                                                 *)
CollaboratorCalls == {"updatePackages", "updateChangelogs", "deleteAll"}

ReallyCalled(cmd) ==
  \E i \in Lines : trace[i].kind = "call" /\ trace[i].exec /\ trace[i].cmd = cmd

GateCoversCommandsOnly ==
  Selective =>
    /\ \A i \in Lines :
         /\ trace[i].kind = "gate" => trace[i].cmd \in GitSteps \cup {"publish", "tag"}
         /\ trace[i].cmd \in CollaboratorCalls => trace[i].kind = "call"
         /\ trace[i].cmd \in {"updatePackages", "updateChangelogs"}
              => trace[i].exec = flags.apply
         /\ trace[i].cmd = "deleteAll"
              => trace[i].exec = (flags.apply \/ Truthy(flags.targetBranch))
    /\ ~ManifestsUntouched => ReallyCalled("updatePackages")
    /\ changelogsUpdated => ReallyCalled("updateChangelogs")
    /\ changeFilesDeleted => ReallyCalled("deleteAll")

(* C12: only commands go through the gate, at every moment of every run. *)
C12_GateCoversCommandsOnly == []GateCoversCommandsOnly

C12_Witness ==
  /\ Selective /\ pc = "done" /\ flags.apply /\ ~Truthy(flags.targetBranch)
  /\ ~ManifestsUntouched /\ changelogsUpdated /\ changeFilesDeleted
  /\ \A i \in Lines : trace[i].kind = "gate" => ~trace[i].exec

(* C13: the steps of a selective run with changes occur in one fixed order:  *)
(* at every moment the steps taken so far are an initial part of the run's   *)
(* step list, and a complete run has taken exactly that list.                *)
(* StepsInOrder is that statement of one moment of the run.                  *)
IsStep(e) == e.kind = "gate" \/ (e.kind = "call" /\ e.cmd \in CollaboratorCalls)

StepsSoFar ==
  LET s == SelectSeq(trace, IsStep)
  IN [i \in 1..Len(s) |-> <<s[i].cmd, s[i].pkg, s[i].ref>>]

ExpectedSteps ==
  LET planned == SelectSeq(orderedChanges, IsPlanned)
  IN <<<<"checkout -b", NoPackage, tempBranch>>, <<"updatePackages", NoPackage, "">>>>
     \o (IF flags.prereleaseHasValue
         THEN << >>
         ELSE <<<<"updateChangelogs", NoPackage, "">>, <<"deleteAll", NoPackage, "">>>>)
     \o <<<<"add", NoPackage, "">>, <<"commit", NoPackage, "">>,
          <<"push", NoPackage, tempBranch>>>>
     \o [i \in 1..Len(planned) |-> <<"publish", planned[i].packageName, flags.registryUrl>>]
     \o [i \in 1..Len(planned) |-> <<"tag", planned[i].packageName, "">>]
     \o <<<<"push", NoPackage, tempBranch>>,
          <<"checkout", NoPackage, flags.targetBranch>>,
          <<"pull", NoPackage, flags.targetBranch>>,
          <<"merge", NoPackage, tempBranch>>,
          <<"push", NoPackage, flags.targetBranch>>,
          <<"branch -d", NoPackage, tempBranch>>,
          <<"push --delete", NoPackage, tempBranch>>>>

IsPrefix(a, b) == Len(a) <= Len(b) /\ a = SubSeq(b, 1, Len(a))

StepsInOrder ==
  (Selective /\ HasChanges(orderedChanges) /\ pc \notin {"start", "resolve", "checkoutTemp"})
     => /\ IsPrefix(StepsSoFar, ExpectedSteps)
        /\ pc = "done" => StepsSoFar = ExpectedSteps

(* C13: the steps taken are in the fixed order at every moment of every run. *)
C13_FixedStepOrder == []StepsInOrder

C13_Witness ==
  /\ Selective /\ pc = "done" /\ ~flags.prereleaseHasValue
  /\ flags.apply /\ flags.publish /\ Truthy(flags.targetBranch)
  /\ Len(StepsSoFar) = 18
  /\ \A i \in Lines : trace[i].ok

(* C14: in the selective workflow the publishes, and likewise the tags, come *)
(* in the order of the resolved change list: of two publish lines (or two    *)
(* tag lines) the earlier one is for the record that comes first in the      *)
(* list, whatever the package names.  The lines are printed one at a time,   *)
(* so it is stated, at every moment, of the line printed last and every line *)
(* before it.                                                                *)
RecordIndex(p) == CHOOSE k \in 1..Len(orderedChanges) : orderedChanges[k].packageName = p

LastLineInResolverOrder ==
  (Selective /\ trace # << >>) =>
    LET last == trace[Len(trace)]
    IN (last.kind = "gate" /\ last.cmd \in {"publish", "tag"}) =>
         \A i \in 1..(Len(trace) - 1) :
            (trace[i].kind = "gate" /\ trace[i].cmd = last.cmd)
               => RecordIndex(trace[i].pkg) < RecordIndex(last.pkg)

(* C14: publishes and tags follow the resolver order at every moment of every run. *)
C14_LoopsFollowResolverOrder == []LastLineInResolverOrder

C14_Witness ==
  /\ Selective /\ pc = "done" /\ Len(orderedChanges) = 2
  /\ orderedChanges[1].packageName > orderedChanges[2].packageName
  /\ \E i, j, k, l \in Lines :
        /\ i < j /\ j < k /\ k < l
        /\ trace[i].cmd = "publish" /\ trace[i].pkg = orderedChanges[1].packageName
        /\ trace[j].cmd = "publish" /\ trace[j].pkg = orderedChanges[2].packageName
        /\ trace[k].cmd = "tag" /\ trace[k].pkg = orderedChanges[1].packageName
        /\ trace[l].cmd = "tag" /\ trace[l].pkg = orderedChanges[2].packageName

(* C15: once both loops of a selective run are over, the packages with a     *)
(* publish line are the packages with a tag line, and they are the packages  *)
(* of the records above dependency whose project has shouldPublish.          *)
HasGate(cmd, p) ==
  \E i \in Lines : trace[i].kind = "gate" /\ trace[i].cmd = cmd /\ trace[i].pkg = p

PackagesWithGate(cmd) == {p \in Packages : HasGate(cmd, p)}

PublishAndTagSetsAgree ==
  (Selective /\ AfterTagLoop /\ HasChanges(orderedChanges)) =>
     \A p \in Packages :
        /\ HasGate("publish", p) <=> HasGate("tag", p)
        /\ HasGate("publish", p) <=>
              \E k \in 1..Len(orderedChanges) : /\ orderedChanges[k].packageName = p
                                                 /\ IsPlanned(orderedChanges[k])

(* C15: the publish set and the tag set agree at every moment after the two loops. *)
C15_PublishAndTagSetsAgree == []PublishAndTagSetsAgree

C15_Witness ==
  /\ Selective /\ pc = "pushTemp2" /\ Len(orderedChanges) = 2
  /\ Cardinality(PackagesWithGate("tag")) = 1
  /\ \E k \in 1..2 : /\ orderedChanges[k].changeType > dependency
                     /\ ~shouldPublish[orderedChanges[k].packageName]

(* C16: in a selective run without prerelease token, ChangeFiles.deleteAll   *)
(* is called with true, and the change files are gone afterwards, exactly    *)
(* when apply is set or targetBranch is present; otherwise it is called with *)
(* false and the files stay.                                                 *)
DeleteReally == flags.apply \/ Truthy(flags.targetBranch)

C16_DeletionIffApplyOrTargetBranch ==
  (Selective /\ ~flags.prereleaseHasValue) =>
     /\ \A i \in Lines : trace[i].cmd = "deleteAll"
                           => /\ trace[i].exec <=> DeleteReally
                              /\ changeFilesDeleted <=> DeleteReally
     /\ (pc = "done" /\ HasChanges(orderedChanges))
          => /\ Cardinality(CallsOf("deleteAll")) = 1
             /\ changeFilesDeleted <=> DeleteReally

C16_Witness ==
  /\ Selective /\ ~flags.prereleaseHasValue /\ pc = "done"
  /\ ~flags.apply /\ Truthy(flags.targetBranch) /\ ~flags.publish
  /\ changeFilesDeleted /\ ~changelogsUpdated

(* The branches of the repository, as the executed git commands leave them.  *)
(* git checkout [-b] b puts HEAD on b; git push origin HEAD:b creates or     *)
(* moves b on the remote; git branch -d b and git push origin --delete b     *)
(* remove b locally and on the remote.                                       *)
InitialBranches == [local |-> {"work"}, remote |-> {}, head |-> "work"]

GitEffect(g, e) ==
  IF ~(e.kind = "gate" /\ e.exec /\ e.ok) THEN g
  ELSE IF e.cmd \in {"checkout -b", "checkout"}
       THEN [g EXCEPT !.local = @ \cup {e.ref}, !.head = e.ref]
  ELSE IF e.cmd = "push" THEN [g EXCEPT !.remote = @ \cup {e.ref}]
  ELSE IF e.cmd = "branch -d" THEN [g EXCEPT !.local = @ \ {e.ref}]
  ELSE IF e.cmd = "push --delete" THEN [g EXCEPT !.remote = @ \ {e.ref}]
  ELSE g

RECURSIVE BranchesAfter(_)
BranchesAfter(n) ==
  IF n = 0 THEN InitialBranches ELSE GitEffect(BranchesAfter(n - 1), trace[n])

(* C18: a complete selective run with changes and a target branch, in which  *)
(* no command failed, used one temp branch name for the create, the two      *)
(* pushes, the merge and the two deletions; at its end that branch is gone   *)
(* locally and on the remote, and HEAD is on the target branch.              *)
TempBranchUses == {"checkout -b", "merge", "branch -d", "push --delete"}

TempBranchCreatedAndRemoved ==
  (/\ Selective /\ pc = "done" /\ HasChanges(orderedChanges)
   /\ Truthy(flags.targetBranch) /\ \A i \in Lines : trace[i].ok)
    => \E c \in Lines :
         /\ trace[c].cmd = "checkout -b"
         /\ LET name == trace[c].ref
                g == BranchesAfter(Len(trace))
            IN /\ Truthy(name) /\ name # flags.targetBranch
               /\ \A i \in Lines : trace[i].cmd \in TempBranchUses => trace[i].ref = name
               /\ \A u \in TempBranchUses :
                     Cardinality({i \in Lines : trace[i].cmd = u}) = 1
               /\ Cardinality({i \in Lines : trace[i].cmd = "push" /\ trace[i].ref = name}) = 2
               /\ name \notin g.local /\ name \notin g.remote
               /\ g.head = flags.targetBranch
               /\ flags.targetBranch \in g.remote

(* C18: every complete run without failure has created and removed one temp branch. *)
C18_TempBranchLifecycle == []TempBranchCreatedAndRemoved

C18_Witness ==
  /\ Selective /\ pc = "done" /\ HasChanges(orderedChanges)
  /\ Truthy(flags.targetBranch) /\ \A i \in Lines : trace[i].ok
  /\ \E i \in Lines : tempBranch \in BranchesAfter(i).local \cap BranchesAfter(i).remote
  /\ tempBranch \notin BranchesAfter(Len(trace)).local \cup BranchesAfter(Len(trace)).remote

(* C19 as stated: change files are really deleted only when apply is set.    *)
C19_AsStated == changeFilesDeleted => flags.apply

(* C19: change files are really deleted only when apply is set or a target   *)
(* branch is given; with a target branch and without apply (and without a    *)
(* prerelease token) the complete run has deleted the change files and       *)
(* committed, with every manifest still at its old version and no changelog  *)
(* written.                                                                  *)
Committed == \E i \in Lines : trace[i].kind = "gate" /\ trace[i].exec /\ trace[i].cmd = "commit"

C19_DeletionWithoutApply ==
  /\ changeFilesDeleted => (Selective /\ (flags.apply \/ Truthy(flags.targetBranch)))
  /\ (changeFilesDeleted /\ ~flags.apply) => (ManifestsUntouched /\ ~changelogsUpdated)
  /\ (/\ Selective /\ pc = "done" /\ HasChanges(orderedChanges)
      /\ ~flags.prereleaseHasValue /\ Truthy(flags.targetBranch) /\ ~flags.apply)
       => (changeFilesDeleted /\ ManifestsUntouched /\ Committed)

C19_Witness ==
  /\ Selective /\ pc = "done" /\ ~flags.apply /\ flags.publish
  /\ changeFilesDeleted /\ ManifestsUntouched /\ Committed

(* C20 as stated: an executed publish or tag of a package finds the          *)
(* package's manifest at the record's newVersion.                            *)
NewVersionOf(p) == orderedChanges[RecordIndex(p)].newVersion

C20_AsStated ==
  Selective =>
    \A i \in Lines :
      (trace[i].kind = "gate" /\ trace[i].exec /\ trace[i].cmd \in {"publish", "tag"})
         => (flags.apply /\ manifestVersion[trace[i].pkg] = NewVersionOf(trace[i].pkg))

(* C20: in the selective workflow a publish executes exactly when publish is *)
(* set, and a tag exactly when targetBranch and publish are set and          *)
(* registryUrl is not, whether or not apply is set; the tag is always named  *)
(* for the record's newVersion, and the manifest is at newVersion when apply *)
(* is set and at its old version when it is not.                             *)
C20_PublishIndependentOfApply ==
  Selective =>
    \A i \in Lines :
      (trace[i].kind = "gate" /\ trace[i].cmd \in {"publish", "tag"}) =>
         /\ trace[i].cmd = "publish" => (trace[i].exec <=> flags.publish)
         /\ trace[i].cmd = "tag" =>
              /\ trace[i].exec <=> (/\ Truthy(flags.targetBranch) /\ flags.publish
                                    /\ ~Truthy(flags.registryUrl))
              /\ trace[i].arg = <<NewVersionOf(trace[i].pkg)>>
         /\ manifestVersion[trace[i].pkg] =
              IF flags.apply THEN NewVersionOf(trace[i].pkg) ELSE 1

C20_Witness ==
  /\ Selective /\ ~flags.apply
  /\ \E i, j \in Lines :
        /\ trace[i].kind = "gate" /\ trace[i].exec /\ trace[i].cmd = "publish"
        /\ trace[j].kind = "gate" /\ trace[j].exec /\ trace[j].cmd = "tag"
        /\ trace[j].pkg = trace[i].pkg
        /\ trace[j].arg = <<2>> /\ manifestVersion[trace[i].pkg] = 1
====
